---- MODULE Spec2Model ----
(***************************************************************************)
(* Model of the LMU API client generator (cmd/generate) and of the client  *)
(* it emits.  Text is modelled as sequences of one-character strings so    *)
(* that splitting, capitalisation, prefix tests and byte-wise sorting are  *)
(* computed the way the Go code computes them.                             *)
(***************************************************************************)
EXTENDS Integers, Sequences, FiniteSets, TLC

\* ------------------------------------------------------------------ bounds

\* Longest raw name fed to the naming helpers in SpecNames.
MaxNameLen == 4
\* Largest number of (path, method) pairs in a fetched schema.
MaxOps == 3
\* Number of times the generator is run against the same schema and server.
MaxRuns == 2
\* Longest key, and largest number of keys, of a JSON object fed to the type
\* inference in SpecInfer.
MaxKeyLen == 2
MaxKeys == 3

\* ------------------------------------------------------------- characters

Lowers == <<"a", "b", "c", "d", "e", "f", "g", "h", "i", "j", "k", "l", "m",
            "n", "o", "p", "q", "r", "s", "t", "u", "v", "w", "x", "y", "z">>
Uppers == <<"A", "B", "C", "D", "E", "F", "G", "H", "I", "J", "K", "L", "M",
            "N", "O", "P", "Q", "R", "S", "T", "U", "V", "W", "X", "Y", "Z">>
Digits == <<"0", "1", "2", "3", "4", "5", "6", "7", "8", "9">>

\* The characters the model uses, in increasing byte order.
AsciiOrder ==
    <<"%", "(", ")", "-", ".", "/">> \o Digits \o <<"?">> \o Uppers
        \o <<"[", "]", "_">> \o Lowers \o <<"{", "}">>

SeqToSet(s) == {s[i] : i \in DOMAIN s}

Ord == [c \in SeqToSet(AsciiOrder) |->
            CHOOSE i \in DOMAIN AsciiOrder : AsciiOrder[i] = c]

LowerSet == SeqToSet(Lowers)
UpperSet == SeqToSet(Uppers)
DigitSet == SeqToSet(Digits)

IsLower(c) == c \in LowerSet
IsUpper(c) == c \in UpperSet
IsDigit(c) == c \in DigitSet
IsLetter(c) == IsLower(c) \/ IsUpper(c)
IsAlnum(c) == IsLetter(c) \/ IsDigit(c)

\* The upper-case letter of each lower-case letter, and the other way round.
UpperOf == [c \in LowerSet |-> Uppers[CHOOSE i \in DOMAIN Lowers : Lowers[i] = c]]
LowerOf == [c \in UpperSet |-> Lowers[CHOOSE i \in DOMAIN Uppers : Uppers[i] = c]]

ToUpperC(c) == IF IsLower(c) THEN UpperOf[c] ELSE c
ToLowerC(c) == IF IsUpper(c) THEN LowerOf[c] ELSE c

ToUpperS(s) == [i \in DOMAIN s |-> ToUpperC(s[i])]

\* s < t in byte-wise lexicographic order (Go's string comparison).
RECURSIVE StrLess(_, _)
StrLess(s, t) ==
    IF t = <<>> THEN FALSE
    ELSE IF s = <<>> THEN TRUE
    ELSE IF s[1] # t[1] THEN Ord[s[1]] < Ord[t[1]]
    ELSE StrLess(Tail(s), Tail(t))

HasPrefix(s, p) == Len(s) >= Len(p) /\ SubSeq(s, 1, Len(p)) = p

RECURSIVE Concat(_)
Concat(ss) == IF ss = <<>> THEN <<>> ELSE Head(ss) \o Concat(Tail(ss))

\* sort.Strings: the elements of a set of strings in increasing order.
RECURSIVE SortStrings(_)
SortStrings(S) ==
    IF S = {} THEN <<>>
    ELSE LET m == CHOOSE x \in S : \A y \in S \ {x} : StrLess(x, y)
         IN  <<m>> \o SortStrings(S \ {m})

\* All strings over alphabet A of length at most n.
RECURSIVE StringsUpTo(_, _)
StringsUpTo(A, n) ==
    IF n = 0 THEN {<<>>}
    ELSE LET shorter == StringsUpTo(A, n - 1)
         IN  shorter \cup {Append(s, c) : s \in shorter, c \in A}

\* The subsets of S with at most n elements.
RECURSIVE SubsetsUpTo(_, _)
SubsetsUpTo(S, n) ==
    IF n = 0 THEN {{}}
    ELSE LET smaller == SubsetsUpTo(S, n - 1)
         IN  smaller \cup {T \cup {x} : T \in smaller, x \in S}

\* --------------------------------------------------------------- literals

sResponse == <<"R", "e", "s", "p", "o", "n", "s", "e">>
sItem == <<"I", "t", "e", "m">>
sPost == <<"P", "o", "s", "t">>
sPut == <<"P", "u", "t">>
sDelete == <<"D", "e", "l", "e", "t", "e">>
sGET == <<"G", "E", "T">>
sPOST == <<"P", "O", "S", "T">>
sPUT == <<"P", "U", "T">>
sDELETE == <<"D", "E", "L", "E", "T", "E">>
sN == <<"N">>
sX == <<"X">>
sParam == <<"P", "a", "r", "a", "m">>
sRoot == <<"r", "o", "o", "t">>
sRest == <<"r", "e", "s", "t">>
sVerb == <<"%", "v">>
tInterface == <<"i", "n", "t", "e", "r", "f", "a", "c", "e", "{", "}">>
tBool == <<"b", "o", "o", "l">>
tInt64 == <<"i", "n", "t", "6", "4">>
tFloat64 == <<"f", "l", "o", "a", "t", "6", "4">>
tString == <<"s", "t", "r", "i", "n", "g">>
tSlice == <<"[", "]">>
tMap == <<"m", "a", "p", "[", "s", "t", "r", "i", "n", "g", "]">>
tUntypedMap == tMap \o tInterface
tUntypedSlice == tSlice \o tInterface
tRawMessage == <<"j", "s", "o", "n", ".", "R", "a", "w", "M", "e", "s", "s", "a", "g", "e">>
tInt == <<"i", "n", "t">>
kType == <<"t", "y", "p", "e">>
kFunc == <<"f", "u", "n", "c">>
kMap == <<"m", "a", "p">>
kRange == <<"r", "a", "n", "g", "e">>
kVar == <<"v", "a", "r">>
kConst == <<"c", "o", "n", "s", "t">>
kReturn == <<"r", "e", "t", "u", "r", "n">>
kDefault == <<"d", "e", "f", "a", "u", "l", "t">>

\* ---------------------------------------------------------- naming helpers

\* nonAlpha.Split(s, -1): the pieces of s between maximal runs of characters
\* outside [a-zA-Z0-9], empty leading and trailing pieces included.
RECURSIVE SplitFrom(_, _, _, _)
SplitFrom(s, i, cur, prevSep) ==
    IF i > Len(s) THEN <<cur>>
    ELSE IF IsAlnum(s[i]) THEN SplitFrom(s, i + 1, Append(cur, s[i]), FALSE)
    ELSE IF prevSep THEN SplitFrom(s, i + 1, cur, TRUE)
    ELSE <<cur>> \o SplitFrom(s, i + 1, <<>>, TRUE)

nonAlphaSplit(s) == SplitFrom(s, 1, <<>>, FALSE)

\* One piece of toExportedName: short all-caps pieces are written upper-cased,
\* every other piece with its first character upper-cased.
ExportedPart(p) ==
    IF p = <<>> THEN <<>>
    ELSE IF Len(p) <= 3 /\ ToUpperS(p) = p THEN ToUpperS(p)
    ELSE <<ToUpperC(p[1])>> \o Tail(p)

toExportedName(s) ==
    LET parts == nonAlphaSplit(s)
        result == Concat([i \in DOMAIN parts |-> ExportedPart(parts[i])])
    IN  IF result = <<>> THEN sX ELSE result

\* One piece of toLowerCamel: the piece at index 0 gets its first character
\* lower-cased, a later piece gets it upper-cased; empty pieces are skipped.
LowerCamelPart(i, p) ==
    IF p = <<>> THEN <<>>
    ELSE IF i = 1 THEN <<ToLowerC(p[1])>> \o Tail(p)
    ELSE <<ToUpperC(p[1])>> \o Tail(p)

toLowerCamel(s) ==
    LET parts == nonAlphaSplit(s)
        result == Concat([i \in DOMAIN parts |-> LowerCamelPart(i, parts[i])])
    IN  IF result \in {kType, kFunc, kMap, kRange, kVar, kConst, kReturn, kDefault}
        THEN result \o sParam
        ELSE result

\* regexPathPart.ReplaceAllString(s, repl): every "(" up to the nearest
\* following ")" is replaced by repl, scanning left to right.
RECURSIVE ReplaceGroupsFrom(_, _, _)
ReplaceGroupsFrom(s, i, repl) ==
    IF i > Len(s) THEN <<>>
    ELSE IF s[i] = "(" /\ \E j \in (i + 1)..Len(s) : s[j] = ")"
    THEN LET close == CHOOSE j \in (i + 1)..Len(s) :
                          /\ s[j] = ")"
                          /\ \A k \in (i + 1)..(j - 1) : s[k] # ")"
         IN  repl \o ReplaceGroupsFrom(s, close + 1, repl)
    ELSE <<s[i]>> \o ReplaceGroupsFrom(s, i + 1, repl)

regexPathPartReplace(s, repl) == ReplaceGroupsFrom(s, 1, repl)

regexPathPartMatch(s) ==
    \E i \in DOMAIN s : s[i] = "(" /\ \E j \in (i + 1)..Len(s) : s[j] = ")"

Contains(s, c) == \E i \in DOMAIN s : s[i] = c

RemoveChar(s, c) == SelectSeq(s, LAMBDA x : x # c)

MethodUpper(method) == ToUpperS(method)

endpointToFuncName(method, path) ==
    LET clean == RemoveChar(regexPathPartReplace(path, <<>>), "?")
        name == toExportedName(clean)
        m == MethodUpper(method)
    IN  IF m = sPOST THEN sPost \o name
        ELSE IF m = sPUT THEN sPut \o name
        ELSE IF m = sDELETE THEN sDelete \o name
        ELSE name

\* strings.Split(s, "/"): every "/" separates, empty pieces are kept.
RECURSIVE SplitSlashFrom(_, _, _)
SplitSlashFrom(s, i, cur) ==
    IF i > Len(s) THEN <<cur>>
    ELSE IF s[i] = "/" THEN <<cur>> \o SplitSlashFrom(s, i + 1, <<>>)
    ELSE SplitSlashFrom(s, i + 1, Append(cur, s[i]))

pathToGroup(path) ==
    LET trimmed == IF HasPrefix(path, <<"/">>) THEN Tail(path) ELSE path
        parts == SplitSlashFrom(trimmed, 1, <<>>)
    IN  IF Len(parts) >= 2
        THEN IF parts[1] = sRest /\ Len(parts) >= 2 THEN parts[2] ELSE parts[1]
        ELSE sRoot

hasPathParams(path, params) ==
    \/ Contains(path, "{")
    \/ regexPathPartMatch(path)
    \/ \E i \in DOMAIN params : params[i].In = "path"

\* ------------------------------------------------------------ JSON values

\* A decoded JSON value (encoding/json into interface{}): t is its kind; an
\* array carries its elements, an object its key -> value map.  A number is a
\* float64: over tells where it lies, "no" for the value ip + fp/10 inside the
\* int64 range (fp = 0 for a whole number), "limit" for 2^63, the first value
\* above the range, "beyond" for a larger one.  i64 is what the conversion
\* int64(val) yields in the build that runs the generator: "trunc", the
\* truncation ip, when the value is in range; for a value out of range Go
\* leaves the result to the implementation and a build yields MinInt64 ("min")
\* or MaxInt64 ("max").
JNull == [t |-> "null"]
JBool == [t |-> "bool"]
JStr == [t |-> "str"]
JNum(ip, fp) == [t |-> "num", ip |-> ip, fp |-> fp, over |-> "no", i64 |-> "trunc"]
JNumOver(over, i64) == [t |-> "num", ip |-> 0, fp |-> 0, over |-> over, i64 |-> i64]
JArr(elems) == [t |-> "arr", elems |-> elems]
JObj(fields) == [t |-> "obj", fields |-> fields]

\* fmt.Sprintf("%d", n) for n >= 0.
RECURSIVE IntToStr(_)
IntToStr(n) ==
    IF n < 10 THEN <<Digits[n + 1]>>
    ELSE IntToStr(n \div 10) \o <<Digits[(n % 10) + 1]>>

\* val == float64(int64(val)): float64(ip) is the value when it has no
\* fraction; float64(MaxInt64) rounds to 2^63; float64(MinInt64) is -2^63.
IsWholeNumber(v) ==
    IF v.i64 = "trunc" THEN v.fp = 0
    ELSE IF v.i64 = "max" THEN v.over = "limit"
    ELSE FALSE

\* A variant of the scan that looks at the first key only.
allNumericFirst(keys) ==
    \A i \in DOMAIN keys : i = 1 => \A j \in DOMAIN keys[i] : IsDigit(keys[i][j])

\* The allNumeric scan of jsonObjectToStruct: no key has a character outside
\* '0'..'9' (a key with no characters passes the scan).
allNumeric(keys) ==
    \A i \in DOMAIN keys : \A j \in DOMAIN keys[i] : IsDigit(keys[i][j])

\* The field name jsonObjectToStruct gives key k before deduplication.
FieldBaseName(k) ==
    LET fieldName == toExportedName(k)
    IN  IF Len(fieldName) > 0 /\ IsDigit(fieldName[1]) THEN sN \o fieldName
        ELSE fieldName

\* The name after the usedNames check, and usedNames after it.
DedupName(fieldName, usedNames) ==
    IF fieldName \in DOMAIN usedNames
    THEN fieldName \o IntToStr(usedNames[fieldName] + 1)
    ELSE fieldName

DedupUsed(fieldName, usedNames) ==
    IF fieldName \in DOMAIN usedNames
    THEN [usedNames EXCEPT ![fieldName] = @ + 1]
    ELSE usedNames @@ (fieldName :> 1)

\* jsonToGoType / jsonObjectToStruct return the Go type of a value and, in
\* writes, the assignments structs[name] = structDef they perform, in the
\* order they perform them.
RECURSIVE jsonToGoType(_, _)
RECURSIVE jsonObjectToStruct(_, _)
RECURSIVE StructFields(_, _, _, _, _, _, _)

\* The field loop of jsonObjectToStruct from key index i on.
StructFields(name, obj, keys, i, usedNames, fields, writes) ==
    IF i > Len(keys) THEN [fields |-> fields, writes |-> writes]
    ELSE LET k == keys[i]
             base == FieldBaseName(k)
             fieldName == DedupName(base, usedNames)
             sub == jsonToGoType(name \o fieldName, obj[k])
             field == [fieldName |-> fieldName, fieldType |-> sub.type, jsonTag |-> k]
         IN  StructFields(name, obj, keys, i + 1, DedupUsed(base, usedNames),
                          Append(fields, field), writes \o sub.writes)

jsonObjectToStruct(name, obj) ==
    IF DOMAIN obj = {} THEN [type |-> tUntypedMap, writes |-> <<>>]
    ELSE LET keys == SortStrings(DOMAIN obj)
         IN  IF allNumeric(keys) /\ Len(keys) > 1
             THEN LET elem == jsonToGoType(name \o sItem, obj[keys[1]])
                  IN  [type |-> tMap \o elem.type, writes |-> elem.writes]
             ELSE LET r == StructFields(name, obj, keys, 1, <<>>, <<>>, <<>>)
                      structDef == [name |-> name, fields |-> r.fields]
                  IN  [type |-> name,
                       writes |-> Append(r.writes, <<name, structDef>>)]

jsonToGoType(name, v) ==
    CASE v.t = "null" -> [type |-> tInterface, writes |-> <<>>]
      [] v.t = "bool" -> [type |-> tBool, writes |-> <<>>]
      [] v.t = "num" ->
            [type |-> IF IsWholeNumber(v) THEN tInt64 ELSE tFloat64, writes |-> <<>>]
      [] v.t = "str" -> [type |-> tString, writes |-> <<>>]
      [] v.t = "arr" ->
            IF Len(v.elems) = 0 THEN [type |-> tUntypedSlice, writes |-> <<>>]
            ELSE LET elem == jsonToGoType(name \o sItem, v.elems[1])
                 IN  [type |-> tSlice \o elem.type, writes |-> elem.writes]
      [] v.t = "obj" -> jsonObjectToStruct(name, v.fields)
      [] OTHER -> [type |-> tInterface, writes |-> <<>>]

\* A variant in which only the assignment of the outermost call reaches the
\* table.
ApplyLastWrite(structs, writes) ==
    IF writes = <<>> THEN structs
    ELSE LET w == writes[Len(writes)]
         IN  IF w[1] \in DOMAIN structs
             THEN [structs EXCEPT ![w[1]] = w[2]]
             ELSE structs @@ (w[1] :> w[2])

\* structs after the assignments in writes, applied in order (last write wins).
RECURSIVE ApplyWrites(_, _)
ApplyWrites(structs, writes) ==
    IF writes = <<>> THEN structs
    ELSE LET w == Head(writes)
             next == IF w[1] \in DOMAIN structs
                     THEN [structs EXCEPT ![w[1]] = w[2]]
                     ELSE structs @@ (w[1] :> w[2])
         IN  ApplyWrites(next, Tail(writes))

\* ------------------------------------------------- schema and descriptors

SwaggerParam(in, name, type) == [In |-> in, Name |-> name, Type |-> type]

\* One (path, method) entry of schema.Paths with its declared parameters.
SwaggerOp(path, method, params) ==
    [path |-> path, method |-> method, params |-> params]

pathAB == <<"/", "a", "/", "b">>
pathADashB == <<"/", "a", "-", "b">>
pathC == <<"/", "c">>
pathARegexB == <<"/", "a", "/", "(", "x", ")", "b">>
pathAId == <<"/", "a", "/", "{", "i", "d", "}">>
mGet == <<"g", "e", "t">>
mPost == <<"p", "o", "s", "t">>

\* The (path, method) entries a fetched schema is drawn from.
SchemaOps ==
    {SwaggerOp(pathAB, mGet, <<>>),
     SwaggerOp(pathAB, mPost, <<SwaggerParam("body", <<"b">>, "string")>>),
     SwaggerOp(pathADashB, mGet, <<>>),
     SwaggerOp(pathC, mGet, <<>>),
     SwaggerOp(pathARegexB, mGet, <<>>),
     SwaggerOp(pathAId, mGet,
               <<SwaggerParam("path", <<"i", "d">>, "integer"),
                 SwaggerParam("query", <<"t", "y", "p", "e">>, "string")>>)}

Schemas == SubsetsUpTo(SchemaOps, MaxOps)

\* The Endpoint built from one schema entry.
Endpoint(op) ==
    [Path |-> op.path,
     Method |-> MethodUpper(op.method),
     Params |-> op.params,
     Group |-> pathToGroup(op.path),
     FuncName |-> endpointToFuncName(op.method, op.path),
     HasPathP |-> hasPathParams(op.path, op.params)]

\* A variant of the comparator that leaves out the group.
EndpointLessByPath(a, b) == StrLess(a.Path, b.Path)

\* The comparator handed to sort.Slice.
EndpointLess(a, b) ==
    IF a.Group # b.Group THEN StrLess(a.Group, b.Group)
    ELSE StrLess(a.Path, b.Path)

RECURSIVE Perms(_)
Perms(S) ==
    IF S = {} THEN {<<>>}
    ELSE UNION {{<<x>> \o p : p \in Perms(S \ {x})} : x \in S}

\* The endpoint lists main can hold after the build loop and sort.Slice: map
\* iteration order is unspecified and the sort is not stable, so every
\* arrangement of the descriptors that respects the comparator can result.
EndpointLists(S) ==
    {l \in Perms({Endpoint(op) : op \in S}) :
        \A i, j \in DOMAIN l : i < j => ~EndpointLess(l[j], l[i])}

\* ------------------------------------------------------------- the sampler

\* What http.Get returns for a sampled endpoint: a transport error, or a
\* status with a body that is empty, not JSON, or a JSON value.
NetError == [err |-> TRUE, status |-> 0, body |-> [kind |-> "empty"]]
Reply(status, body) == [err |-> FALSE, status |-> status, body |-> body]
EmptyBody == [kind |-> "empty"]
TextBody == [kind |-> "text"]
JsonBody(v) == [kind |-> "json", json |-> v]

keyA == <<"a">>
keyAB == <<"a", "B">>
keyB == <<"B">>
keyX == <<"x">>
key1 == <<"1">>
key2 == <<"2">>

\* {"a": {"B": {"x": 1}}, "aB": {"x": "s"}}
SampleNested ==
    JObj((keyA :> JObj(keyB :> JObj(keyX :> JNum(1, 0))))
         @@ (keyAB :> JObj(keyX :> JStr)))
\* {"1": {"x": 1}, "2": {"x": 2}}
SampleNumericKeys ==
    JObj((key1 :> JObj(keyX :> JNum(1, 0))) @@ (key2 :> JObj(keyX :> JNum(2, 0))))
\* [{"x": 1.5}]
SampleArray == JArr(<<JObj(keyX :> JNum(1, 5))>>)
\* {"x": true}
SampleFlat == JObj(keyX :> JBool)

SampleValues == {SampleNested, SampleNumericKeys, SampleArray, JNum(5, 0)}

\* The one status the sampler accepts.
StatusOK == 200

Replies ==
    {NetError, Reply(500, JsonBody(SampleFlat)),
     Reply(StatusOK, EmptyBody), Reply(StatusOK, TextBody)}
        \cup {Reply(StatusOK, JsonBody(v)) : v \in SampleValues}

\* A variant of the classification that leaves out the status test.
ClassifyAnyStatus(reply) ==
    IF reply.err THEN "error"
    ELSE IF reply.body.kind = "empty" THEN "empty"
    ELSE IF reply.body.kind # "json" THEN "notjson"
    ELSE "success"

\* The outcome classification of the sampling loop, in the order it tests.
Classify(reply) ==
    IF reply.err THEN "error"
    ELSE IF reply.status # StatusOK THEN "skip"
    ELSE IF reply.body.kind = "empty" THEN "empty"
    ELSE IF reply.body.kind # "json" THEN "notjson"
    ELSE "success"

\* A variant of the loop's test that leaves out the dynamic-path flag.
SampledAnyPath(ep) == ep.Method = sGET

\* The loop's test for calling an endpoint.
Sampled(ep) == ep.Method = sGET /\ ~ep.HasPathP

\* --------------------------------------------------------- code generation

\* generateModels: the struct definitions of the table, sorted by name.
generateModels(structs) ==
    LET names == SortStrings(DOMAIN structs)
    IN  [i \in DOMAIN names |-> structs[names[i]]]

swaggerTypeToGo(t) ==
    CASE t = "integer" -> tInt
      [] t = "number" -> tFloat64
      [] t = "boolean" -> tBool
      [] OTHER -> tString

\* The text writeZeroReturn puts before ", err".
writeZeroReturn(retType) ==
    IF retType = tString THEN "\"\""
    ELSE IF retType = tBool THEN "false"
    ELSE IF retType = tInt64 \/ retType = tFloat64 THEN "0"
    ELSE IF HasPrefix(retType, tSlice) \/ HasPrefix(retType, kMap) THEN "nil"
    ELSE "nil"

IsWordChar(c) == IsAlnum(c) \/ c = "_"

\* The end of the \w+ run that starts at position i of s.
RECURSIVE WordRunEnd(_, _)
WordRunEnd(s, i) ==
    IF i <= Len(s) /\ IsWordChar(s[i]) THEN WordRunEnd(s, i + 1) ELSE i

\* regexp `\{(\w+)\}` ReplaceAllString(s, repl).
RECURSIVE ReplaceBracesFrom(_, _, _)
ReplaceBracesFrom(s, i, repl) ==
    IF i > Len(s) THEN <<>>
    ELSE LET e == WordRunEnd(s, i + 1)
         IN  IF s[i] = "{" /\ e > i + 1 /\ e <= Len(s) /\ s[e] = "}"
             THEN repl \o ReplaceBracesFrom(s, e + 1, repl)
             ELSE <<s[i]>> \o ReplaceBracesFrom(s, i + 1, repl)

\* The Params of an endpoint with location loc, in declaration order.
ParamsIn(ep, loc) == SelectSeq(ep.Params, LAMBDA p : p.In = loc)

SigParam(p) == [name |-> toLowerCamel(p.Name), type |-> swaggerTypeToGo(p.Type)]

\* responseTypes[ep.FuncName], the empty string when the key is absent.
LookupType(responseTypes, funcName) ==
    IF funcName \in DOMAIN responseTypes THEN responseTypes[funcName] ELSE <<>>

\* A variant of hasTypedResponse that leaves out the "[]" prefix test.
hasTypedResponseSlices(retType) ==
    /\ retType # <<>>
    /\ retType \notin {tString, tBool, tInt64, tFloat64, tInterface, tUntypedMap}

hasTypedResponse(retType) ==
    /\ retType # <<>>
    /\ ~HasPrefix(retType, tSlice)
    /\ retType \notin {tString, tBool, tInt64, tFloat64, tInterface, tUntypedMap}

\* The operation generateClient writes for endpoint ep under the name funcName:
\* its signature, the doRequest call, the return on a doRequest error and the
\* way the payload becomes the result.  query is the list of query parameters
\* the generator collects for it; the body it writes has no use of them.
EmitOperation(ep, funcName, responseTypes) ==
    LET pathParams == ParamsIn(ep, "path")
        queryParams == ParamsIn(ep, "query")
        hasBody == ParamsIn(ep, "body") # <<>>
        sigParams ==
            [i \in DOMAIN pathParams |-> SigParam(pathParams[i])]
                \o [i \in DOMAIN queryParams |-> SigParam(queryParams[i])]
                \o (IF hasBody THEN <<[name |-> <<"b", "o", "d", "y">>, type |-> tInterface]>>
                    ELSE <<>>)
        pathExpr == regexPathPartReplace(ReplaceBracesFrom(ep.Path, 1, sVerb), sVerb)
        pathParamNames == [i \in DOMAIN pathParams |-> toLowerCamel(pathParams[i].Name)]
        pathBuild ==
            IF Len(pathParamNames) > 0
            THEN [kind |-> "sprintf", format |-> pathExpr, args |-> pathParamNames]
            ELSE [kind |-> "literal", format |-> ep.Path, args |-> <<>>]
        found == LookupType(responseTypes, ep.FuncName)
        typed == hasTypedResponse(found)
        retType == IF found = <<>> THEN tRawMessage ELSE found
    IN  [name |-> funcName,
         sig |-> sigParams,
         query |-> [i \in DOMAIN queryParams |-> toLowerCamel(queryParams[i].Name)],
         method |-> ep.Method,
         pathBuild |-> pathBuild,
         bodyArg |-> IF hasBody THEN "body" ELSE "nil",
         retType |-> retType,
         pointer |-> ~(retType = tRawMessage \/ ~typed),
         onError |-> IF typed THEN "nil" ELSE writeZeroReturn(retType),
         decode |-> IF typed THEN "typed"
                    ELSE IF retType = tRawMessage THEN "raw"
                    ELSE "value"]

\* The name the emission loop gives an endpoint, given the names seen so far.
EmittedName(ep, seen) ==
    IF ep.FuncName \in seen THEN ep.FuncName \o ep.Method ELSE ep.FuncName

\* The emission loop of generateClient from endpoint index i on.
RECURSIVE ClientOpsFrom(_, _, _, _)
ClientOpsFrom(endpoints, i, seen, responseTypes) ==
    IF i > Len(endpoints) THEN <<>>
    ELSE LET funcName == EmittedName(endpoints[i], seen)
         IN  <<EmitOperation(endpoints[i], funcName, responseTypes)>>
                 \o ClientOpsFrom(endpoints, i + 1, seen \cup {funcName}, responseTypes)

generateClient(endpoints, responseTypes) ==
    ClientOpsFrom(endpoints, 1, {}, responseTypes)

\* ------------------------------------------------------- the generator run

VARIABLES
    pc,                   \* where main is: start, build, sample, models, client, done, aborted
    schema,               \* schema.Paths as a set of (path, method) entries
    endpoints,            \* the sorted endpoint list
    idx,                  \* index of the sampling loop in endpoints
    inferredStructs,      \* struct name -> struct definition
    endpointResponseType, \* funcName -> response type
    totalGetCalls, successCalls, skippedCalls,
    summary,              \* the counts of the "GET summary" line, once printed
    requests,             \* the paths requested with http.Get, in order
    registered,           \* the names assigned in inferredStructs, in order
    server,               \* what the server answered for each requested path
    files,                \* file name -> content written to the output directory
    run,                  \* number of the current run
    prev,                 \* the files the previous run wrote
    call,                 \* the last call of a generated operation and its result
    input,                \* the argument of a helper applied on its own
    output,               \* what the helper returned for it
    fetch,                \* what the schema fetch returned, <<>> before it
    maxSpeeds,            \* the monitor's slot -> highest speed seen
    ticks,                \* number of iterations of the monitor's poll loop
    frames,               \* number of times the monitor rendered the table
    last                  \* the last iteration: what it fetched, maxSpeeds before it

vars == <<pc, schema, endpoints, idx, inferredStructs, endpointResponseType,
          totalGetCalls, successCalls, skippedCalls, summary, requests,
          registered, server, files, run, prev, call, input, output, fetch,
          maxSpeeds, ticks, frames, last>>

\* The state of the standings monitor.
monitor == <<maxSpeeds, ticks, frames, last>>

NoFiles == <<>>
NoMap == <<>>

\* Everything but pc, input and output, before main has done anything.
Idle ==
    /\ schema = {}
    /\ endpoints = <<>>
    /\ idx = 1
    /\ inferredStructs = NoMap
    /\ endpointResponseType = NoMap
    /\ totalGetCalls = 0
    /\ successCalls = 0
    /\ skippedCalls = 0
    /\ summary = <<>>
    /\ requests = <<>>
    /\ registered = <<>>
    /\ server = NoMap
    /\ files = NoFiles
    /\ run = 1
    /\ prev = NoFiles
    /\ call = <<>>
    /\ fetch = <<>>
    /\ maxSpeeds = NoMap
    /\ ticks = 0
    /\ frames = 0
    /\ last = <<>>

Init ==
    /\ pc = "start"
    /\ input = <<>>
    /\ output = <<>>
    /\ Idle

\* What the schema fetch can return: a transport error, or a response with a
\* status and a body.  json.Unmarshal into SwaggerSchema rejects an empty body,
\* text and every JSON value that is not an object; it accepts every JSON
\* object, and one without "paths" (an error object) gives a schema with no
\* paths.
SchemaBody(S) == [kind |-> "schema", schema |-> S]
FetchStatuses == {StatusOK, 500}
FetchReplies ==
    {NetError}
        \cup {Reply(st, b) : st \in FetchStatuses, b \in {EmptyBody, TextBody}}
        \cup {Reply(StatusOK, SchemaBody(S)) : S \in Schemas}
        \cup {Reply(500, SchemaBody(S)) : S \in {T \in Schemas : Cardinality(T) <= 1}}

\* json.Unmarshal(body, &schema) returns nil.
SchemaParses(body) == body.kind = "schema"

\* The two log.Fatalf tests of the fetch: http.Get returned an error, or the
\* body did not parse.  The status of the response is not looked at.
FetchFails(reply) == reply.err \/ ~SchemaParses(reply.body)

\* Step 1 of main: fetch and parse the schema; log.Fatalf on failure.
FetchSchema ==
    /\ pc = "start"
    /\ \E reply \in FetchReplies :
          /\ fetch' = [err |-> reply.err, status |-> reply.status,
                       parsed |-> SchemaParses(reply.body)]
          /\ IF FetchFails(reply)
             THEN /\ pc' = "aborted"
                  /\ UNCHANGED schema
             ELSE /\ pc' = "build"
                  /\ schema' = reply.body.schema
    /\ UNCHANGED <<endpoints, idx, inferredStructs, endpointResponseType,
                   totalGetCalls, successCalls, skippedCalls, summary, requests,
                   registered, server, files, run, prev, call, input, output, monitor>>

\* Step 2 of main, and the initialisation that precedes the sampling loop.
BuildEndpoints ==
    /\ pc = "build"
    /\ endpoints' \in EndpointLists(schema)
    /\ idx' = 1
    /\ inferredStructs' = NoMap
    /\ endpointResponseType' = NoMap
    /\ totalGetCalls' = 0
    /\ successCalls' = 0
    /\ skippedCalls' = 0
    /\ pc' = "sample"
    /\ UNCHANGED <<schema, summary, requests, registered, server, files, run, prev, call, input, output, fetch, monitor>>

\* One iteration of the sampling loop that takes the first continue.
SkipEndpoint ==
    /\ pc = "sample"
    /\ idx <= Len(endpoints)
    /\ ~Sampled(endpoints[idx])
    /\ idx' = idx + 1
    /\ UNCHANGED <<pc, schema, endpoints, inferredStructs, endpointResponseType,
                   totalGetCalls, successCalls, skippedCalls, summary, requests,
                   registered, server, files, run, prev, call, input, output, fetch, monitor>>

\* The server's answers are fixed per path once given.
RepliesFor(path) == IF path \in DOMAIN server THEN {server[path]} ELSE Replies

WriteNames(writes) == [i \in DOMAIN writes |-> writes[i][1]]

\* The effect of a success outcome: infer the type, record it by FuncName.
InferResponse(ep, parsed) ==
    LET typeName == ep.FuncName \o sResponse
        goType == jsonToGoType(typeName, parsed)
    IN  /\ inferredStructs' = ApplyWrites(inferredStructs, goType.writes)
        /\ registered' = registered \o WriteNames(goType.writes)
        /\ endpointResponseType' =
              IF ep.FuncName \in DOMAIN endpointResponseType
              THEN [endpointResponseType EXCEPT ![ep.FuncName] = goType.type]
              ELSE endpointResponseType @@ (ep.FuncName :> goType.type)
        /\ successCalls' = successCalls + 1
        /\ UNCHANGED skippedCalls

\* A variant of the skip branches that forgets skippedCalls++.
SkipResponseUncounted ==
    UNCHANGED <<skippedCalls, inferredStructs, registered, endpointResponseType,
                successCalls>>

\* The effect of every other outcome.
SkipResponse ==
    /\ skippedCalls' = skippedCalls + 1
    /\ UNCHANGED <<inferredStructs, registered, endpointResponseType, successCalls>>

\* One iteration of the sampling loop that calls the endpoint.
SampleEndpoint ==
    /\ pc = "sample"
    /\ idx <= Len(endpoints)
    /\ Sampled(endpoints[idx])
    /\ \E reply \in RepliesFor(endpoints[idx].Path) :
          /\ server' = IF endpoints[idx].Path \in DOMAIN server THEN server
                       ELSE server @@ (endpoints[idx].Path :> reply)
          /\ IF Classify(reply) = "success"
             THEN InferResponse(endpoints[idx], reply.body.json)
             ELSE SkipResponse
    /\ totalGetCalls' = totalGetCalls + 1
    /\ requests' = Append(requests, endpoints[idx].Path)
    /\ idx' = idx + 1
    /\ UNCHANGED <<pc, schema, endpoints, summary, files, run, prev, call, input, output, fetch, monitor>>

\* The end of the loop: the summary line.
PrintSummary ==
    /\ pc = "sample"
    /\ idx > Len(endpoints)
    /\ summary' = <<totalGetCalls, successCalls, skippedCalls>>
    /\ pc' = "models"
    /\ UNCHANGED <<schema, endpoints, idx, inferredStructs, endpointResponseType,
                   totalGetCalls, successCalls, skippedCalls, requests,
                   registered, server, files, run, prev, call, input, output, fetch, monitor>>

WriteFile(name, content) ==
    files' = IF name \in DOMAIN files THEN [files EXCEPT ![name] = content]
             ELSE files @@ (name :> content)

\* Step 4a of main.
GenerateModels ==
    /\ pc = "models"
    /\ WriteFile("models.go", generateModels(inferredStructs))
    /\ pc' = "client"
    /\ UNCHANGED <<schema, endpoints, idx, inferredStructs, endpointResponseType,
                   totalGetCalls, successCalls, skippedCalls, summary, requests,
                   registered, server, run, prev, call, input, output, fetch, monitor>>

\* Step 4b of main.
GenerateClient ==
    /\ pc = "client"
    /\ WriteFile("client.go", generateClient(endpoints, endpointResponseType))
    /\ pc' = "done"
    /\ UNCHANGED <<schema, endpoints, idx, inferredStructs, endpointResponseType,
                   totalGetCalls, successCalls, skippedCalls, summary, requests,
                   registered, server, run, prev, call, input, output, fetch, monitor>>

\* The generator is started again with the same schema, against a server that
\* answers every path as before, writing to a fresh output directory.
Rerun ==
    /\ pc = "done"
    /\ run < MaxRuns
    /\ run' = run + 1
    /\ prev' = files
    /\ files' = NoFiles
    /\ pc' = "build"
    /\ endpoints' = <<>>
    /\ idx' = 1
    /\ summary' = <<>>
    /\ requests' = <<>>
    /\ registered' = <<>>
    /\ call' = <<>>
    /\ inferredStructs' = NoMap
    /\ endpointResponseType' = NoMap
    /\ totalGetCalls' = 0
    /\ successCalls' = 0
    /\ skippedCalls' = 0
    /\ UNCHANGED <<schema, server, input, output, fetch, monitor>>

\* ------------------------------------------------- the generated client

\* The bounds of the status test in the emitted doRequest.
StatusMin == 200
StatusLimit == 300

NilError == [kind |-> "nil"]
HTTPError(status, data) == [kind |-> "http", status |-> status, data |-> data]
OtherError(what) == [kind |-> "other", what |-> what]

\* What a dispatched request meets: fail names the step of doRequest that
\* fails: "transport" when c.HTTPClient.Do returns an error, "read" when a
\* response arrives and io.ReadAll fails, "none" when the response is read.
\* A response has a status and a body; decodes tells whether json.Unmarshal
\* accepts the body for the operation's result type.
HTTPStatuses == {200, 299, 300, 404}
HTTPData == {[kind |-> "text", decodes |-> FALSE],
             [kind |-> "json", decodes |-> TRUE]}
HTTPResults ==
    {[fail |-> "transport", status |-> 0, data |-> [kind |-> "text", decodes |-> FALSE]],
     [fail |-> "read", status |-> 404, data |-> [kind |-> "text", decodes |-> FALSE]]}
        \cup {[fail |-> "none", status |-> st, data |-> d] :
                 st \in HTTPStatuses, d \in HTTPData}

\* A variant of the status test that lets the upper limit itself pass.
StatusRejectedAbove(status) == status < StatusMin \/ status > StatusLimit

\* The status test of the emitted doRequest.
StatusRejected(status) == status < StatusMin \/ status >= StatusLimit

\* The emitted doRequest: the pair (data, err) it returns.
doRequest(http) ==
    IF http.fail # "none" THEN [data |-> "nil", err |-> OtherError(http.fail)]
    ELSE IF StatusRejected(http.status)
    THEN [data |-> http.data, err |-> HTTPError(http.status, http.data)]
    ELSE [data |-> http.data, err |-> NilError]

\* The body of an emitted operation op after its doRequest call: the pair
\* (result, error) it returns.  result is the zero-value text of the error
\* branch, the undecoded data, or the decoded value.
RunOperation(op, http) ==
    LET r == doRequest(http)
    IN  IF r.err # NilError THEN [result |-> [zero |-> op.onError], err |-> r.err]
        ELSE IF op.decode = "raw" THEN [result |-> [raw |-> r.data], err |-> NilError]
        ELSE IF ~r.data.decodes
        THEN [result |-> [zero |-> op.onError], err |-> OtherError("unmarshal")]
        ELSE [result |-> [decoded |-> r.data, pointer |-> op.pointer], err |-> NilError]

\* The values a caller passes for a parameter, as fmt prints them with %v.
ArgValues == {<<"1">>, <<"7">>}

sMissing == <<"%", "!", "v", "(", "M", "I", "S", "S", "I", "N", "G", ")">>
sExtra == <<"%", "!", "(", "E", "X", "T", "R", "A", ")">>

\* fmt.Sprintf(format, vals...) for a format whose only verbs are %v: each verb
\* takes the next value; a verb without value and values without verb are
\* reported in the text.
RECURSIVE SprintfFrom(_, _, _)
SprintfFrom(format, i, vals) ==
    IF i > Len(format) THEN (IF vals = <<>> THEN <<>> ELSE sExtra \o Concat(vals))
    ELSE IF format[i] = "%" /\ i < Len(format) /\ format[i + 1] = "v"
    THEN IF vals = <<>> THEN sMissing \o SprintfFrom(format, i + 2, vals)
         ELSE Head(vals) \o SprintfFrom(format, i + 2, Tail(vals))
    ELSE <<format[i]>> \o SprintfFrom(format, i + 1, vals)

\* The value of the parameter called name in a call with arguments args.
ArgOf(op, args, name) ==
    args[CHOOSE i \in DOMAIN op.sig : op.sig[i].name = name]

\* A variant of the request construction that appends the query arguments to
\* the path.
DispatchWithQuery(op, args) ==
    [method |-> op.method,
     path |-> (IF op.pathBuild.kind = "sprintf"
               THEN SprintfFrom(op.pathBuild.format, 1,
                                [i \in DOMAIN op.pathBuild.args |->
                                    ArgOf(op, args, op.pathBuild.args[i])])
               ELSE op.pathBuild.format)
              \o Concat([i \in DOMAIN op.query |-> <<"?">> \o ArgOf(op, args, op.query[i])]),
     body |-> IF op.bodyArg = "body"
              THEN <<ArgOf(op, args, <<"b", "o", "d", "y">>)>> ELSE <<>>]

\* The arguments of the doRequest call an emitted operation makes in a call
\* with arguments args: the method, the path expression evaluated, and the
\* body (<<>> for nil).
Dispatch(op, args) ==
    [method |-> op.method,
     path |-> IF op.pathBuild.kind = "sprintf"
              THEN SprintfFrom(op.pathBuild.format, 1,
                               [i \in DOMAIN op.pathBuild.args |->
                                   ArgOf(op, args, op.pathBuild.args[i])])
              ELSE op.pathBuild.format,
     body |-> IF op.bodyArg = "body"
              THEN <<ArgOf(op, args, <<"b", "o", "d", "y">>)>> ELSE <<>>]

\* A caller invokes operation k of the written client with arguments args; the
\* model follows one call per generated client.
CallOperation ==
    /\ pc = "done"
    /\ call = <<>>
    /\ \E k \in DOMAIN files["client.go"], http \in HTTPResults :
          \E args \in [DOMAIN files["client.go"][k].sig -> ArgValues] :
              call' = [op |-> k, args |-> args,
                       request |-> Dispatch(files["client.go"][k], args),
                       http |-> http,
                       ret |-> RunOperation(files["client.go"][k], http)]
    /\ UNCHANGED <<pc, schema, endpoints, idx, inferredStructs, endpointResponseType,
                   totalGetCalls, successCalls, skippedCalls, summary, requests,
                   registered, server, files, run, prev, input, output, fetch, monitor>>

Next ==
    \/ FetchSchema
    \/ BuildEndpoints
    \/ SkipEndpoint
    \/ SampleEndpoint
    \/ PrintSummary
    \/ GenerateModels
    \/ GenerateClient
    \/ Rerun
    \/ CallOperation

Spec == Init /\ [][Next]_vars

\* ------------------------------------------- the naming helpers on their own

NameAlphabet == {"g", "o", "A", "1", "-"}

generator == <<schema, endpoints, idx, inferredStructs, endpointResponseType,
               totalGetCalls, successCalls, skippedCalls, summary, requests,
               registered, server, files, run, prev, call, fetch>>

InitNames ==
    /\ pc = "names"
    /\ input \in StringsUpTo(NameAlphabet, MaxNameLen)
    /\ output = <<>>
    /\ Idle

\* toExportedName and toLowerCamel applied to the raw name.
ApplyNaming ==
    /\ pc = "names"
    /\ output' = [exported |-> toExportedName(input), lowerCamel |-> toLowerCamel(input)]
    /\ pc' = "named"
    /\ UNCHANGED <<input, generator, monitor>>

NextNames == ApplyNaming

SpecNames == InitNames /\ [][NextNames]_vars

\* ------------------------------------------- the type inference on its own

KeyAlphabet == {"a", "2", "-"}

\* The key sets with at most MaxKeys keys of at most MaxKeyLen characters.
KeySets == SubsetsUpTo(StringsUpTo(KeyAlphabet, MaxKeyLen), MaxKeys)

\* The object with keys K in which the keys of even length hold the object
\* {"x": "s"} and the keys of odd length the number 1, or the other way round.
SampleObject(K, evenNested) ==
    JObj([k \in K |-> IF (Len(k) % 2 = 0) = evenNested THEN JObj(keyX :> JStr)
                      ELSE JNum(1, 0)])

\* The candidate name of the root call for an endpoint named X.
RootName == sX \o sResponse

InitInfer ==
    /\ pc = "infer"
    /\ \E K \in KeySets, evenNested \in BOOLEAN : input = SampleObject(K, evenNested)
    /\ output = <<>>
    /\ Idle

\* jsonToGoType applied to the sample with an empty struct table.
ApplyInfer ==
    /\ pc = "infer"
    /\ output' = jsonToGoType(RootName, input)
    /\ pc' = "inferred"
    /\ UNCHANGED <<input, generator, monitor>>

NextInfer == ApplyInfer

SpecInfer == InitInfer /\ [][NextInfer]_vars

\* ---------------------------------------- the number inference on its own

\* Largest integer part of an in-range sampled number.
MaxWhole == 9

\* The sampled numbers: those in range with one decimal, and 2^63 and a larger
\* value with either outcome of the conversion.
SampleNumbers ==
    {JNum(ip, fp) : ip \in 0..MaxWhole, fp \in 0..9}
        \cup {JNumOver(over, i64) : over \in {"limit", "beyond"}, i64 \in {"min", "max"}}

InitNumbers ==
    /\ pc = "number"
    /\ input \in SampleNumbers
    /\ output = <<>>
    /\ Idle

\* jsonToGoType applied to the number.
ApplyNumber ==
    /\ pc = "number"
    /\ output' = jsonToGoType(RootName, input)
    /\ pc' = "numbered"
    /\ UNCHANGED <<input, generator, monitor>>

NextNumbers == ApplyNumber

SpecNumbers == InitNumbers /\ [][NextNumbers]_vars

\* ------------------------------------------------- the standings monitor

\* Number of poll ticks followed, and the largest number of cars in one
\* standings reply.
MaxTicks == 3
MaxCars == 2

\* The slot ids and the velocities (in m/s) the cars report.
Slots == {1, 2}
Velocities == {-1, 0, 1, 2}

\* A decoded Standing, as far as the speed tracking reads it.
Standing(slot, velocity) == [SlotID |-> slot, Velocity |-> velocity]

\* The standings a successful fetch can decode, in the order render's sort
\* leaves them: any cars in any order, a slot possibly more than once.
StandingsLists ==
    UNION {[1..n -> {Standing(sl, v) : sl \in Slots, v \in Velocities}] : n \in 0..MaxCars}

\* The ways fetchStandings returns an error: client.Get fails, the status is
\* not 200, or json.Unmarshal rejects the body.
FetchErrors == {"transport", "status", "unmarshal"}

\* s.CarVelocity.Velocity * 3.6, in tenths of km/h.
SpeedFactor == 36
Speed(velocity) == velocity * SpeedFactor

\* maxSpeeds[slot]: a missing key reads as 0.
MaxSpeedOf(m, slot) == IF slot \in DOMAIN m THEN m[slot] ELSE 0

\* A variant of the tracking step that stores the speed without comparing.
TrackAlways(m, s) ==
    IF s.SlotID \in DOMAIN m THEN [m EXCEPT ![s.SlotID] = Speed(s.Velocity)]
    ELSE m @@ (s.SlotID :> Speed(s.Velocity))

\* One iteration of the "Track max speeds" loop.
Track(m, s) ==
    IF Speed(s.Velocity) > MaxSpeedOf(m, s.SlotID)
    THEN IF s.SlotID \in DOMAIN m THEN [m EXCEPT ![s.SlotID] = Speed(s.Velocity)]
         ELSE m @@ (s.SlotID :> Speed(s.Velocity))
    ELSE m

\* The whole loop over the standings from index i on.
RECURSIVE TrackMaxSpeeds(_, _, _)
TrackMaxSpeeds(m, standings, i) ==
    IF i > Len(standings) THEN m
    ELSE TrackMaxSpeeds(Track(m, standings[i]), standings, i + 1)

InitStandings ==
    /\ pc = "poll"
    /\ input = <<>>
    /\ output = <<>>
    /\ Idle

\* An iteration of the poll loop in which fetchStandings returns an error: the
\* error is printed and the loop sleeps and continues.
PollFailed ==
    /\ pc = "poll"
    /\ ticks < MaxTicks
    /\ \E e \in FetchErrors : last' = [ok |-> FALSE, error |-> e, standings |-> <<>>]
    /\ ticks' = ticks + 1
    /\ UNCHANGED <<pc, maxSpeeds, frames, input, output, generator>>

\* An iteration in which fetchStandings succeeds: the history (and session)
\* fetches may fail without effect on the loop, and render tracks the speeds
\* and prints the table.
PollRendered ==
    /\ pc = "poll"
    /\ ticks < MaxTicks
    /\ \E standings \in StandingsLists :
          /\ last' = [ok |-> TRUE, error |-> "", standings |-> standings]
          /\ maxSpeeds' = TrackMaxSpeeds(maxSpeeds, standings, 1)
    /\ frames' = frames + 1
    /\ ticks' = ticks + 1
    /\ UNCHANGED <<pc, input, output, generator>>

NextStandings == PollFailed \/ PollRendered

SpecStandings == InitStandings /\ [][NextStandings]_vars

\* ================================================================= claims

Written(name) == name \in DOMAIN files
ClientOps == files["client.go"]

\* An endpoint the claims call eligible: method GET and dynamic-path flag false.
Eligible(ep) == ep.Method = sGET /\ ~ep.HasPathP

\* The endpoint was itself called and its sample classified as success.
SampledWithSuccess(ep) ==
    /\ Eligible(ep)
    /\ ep.Path \in DOMAIN server
    /\ ~server[ep.Path].err
    /\ server[ep.Path].status = 200
    /\ server[ep.Path].body.kind = "json"

\* C1: two runs of the generator on the same schema, with the same answer from
\* the server for every path, write identical models and client units.
C1_Determinism == (pc = "done" /\ run > 1) => files = prev

\* C2: the operation names emitted in the client unit are pairwise distinct.
C2_OperationNamesDistinct ==
    Written("client.go") =>
        \A i, j \in DOMAIN ClientOps : i # j => ClientOps[i].name # ClientOps[j].name

\* C3: in every record the inference registers for a non-empty JSON object,
\* the field names are pairwise distinct.
C3_FieldNamesDistinct ==
    pc = "inferred" =>
        \A w \in DOMAIN output.writes :
            LET fields == output.writes[w][2].fields
            IN  \A i, j \in DOMAIN fields :
                    i # j => fields[i].fieldName # fields[j].fieldName

\* C4: within one run no record name is registered in the record table more
\* than once.
C4_NoNameRegisteredTwice ==
    \A i, j \in DOMAIN registered : i # j => registered[i] # registered[j]

\* The 25 reserved words of Go.
GoKeywords ==
    {<<"b", "r", "e", "a", "k">>, <<"d", "e", "f", "a", "u", "l", "t">>,
     <<"f", "u", "n", "c">>, <<"i", "n", "t", "e", "r", "f", "a", "c", "e">>,
     <<"s", "e", "l", "e", "c", "t">>, <<"c", "a", "s", "e">>,
     <<"d", "e", "f", "e", "r">>, <<"g", "o">>, <<"m", "a", "p">>,
     <<"s", "t", "r", "u", "c", "t">>, <<"c", "h", "a", "n">>,
     <<"e", "l", "s", "e">>, <<"g", "o", "t", "o">>,
     <<"p", "a", "c", "k", "a", "g", "e">>, <<"s", "w", "i", "t", "c", "h">>,
     <<"c", "o", "n", "s", "t">>,
     <<"f", "a", "l", "l", "t", "h", "r", "o", "u", "g", "h">>, <<"i", "f">>,
     <<"r", "a", "n", "g", "e">>, <<"t", "y", "p", "e">>,
     <<"c", "o", "n", "t", "i", "n", "u", "e">>, <<"f", "o", "r">>,
     <<"i", "m", "p", "o", "r", "t">>, <<"r", "e", "t", "u", "r", "n">>,
     <<"v", "a", "r">>}

ValidIdentifier(id) ==
    /\ Len(id) > 0
    /\ IsLetter(id[1])
    /\ \A i \in DOMAIN id : IsAlnum(id[i])
    /\ id \notin GoKeywords

\* C5: for every raw name, toExportedName and toLowerCamel each return a valid
\* identifier: non-empty, starting with a letter, letters and digits only, and
\* not a reserved word.
C5_NamesValid ==
    pc = "named" =>
        ValidIdentifier(output.exported) /\ ValidIdentifier(output.lowerCamel)

\* C6: an endpoint that was not itself sampled with a success outcome is emitted
\* with no associated response type and a raw result.
C6_UnsampledIsRaw ==
    Written("client.go") =>
        \A k \in DOMAIN ClientOps :
            ~SampledWithSuccess(endpoints[k]) =>
                ClientOps[k].decode = "raw" /\ ClientOps[k].retType = tRawMessage

\* The paths of the eligible endpoints among the first n of the list, in order.
EligiblePaths(n) ==
    LET done == SelectSeq(SubSeq(endpoints, 1, n), Eligible)
    IN  [i \in DOMAIN done |-> done[i].Path]

\* C7: the sampler issues exactly one request for every eligible endpoint and
\* none for any other: at every point the requests issued are those of the
\* eligible endpoints the loop has passed, one each, whatever the outcomes.
C7_OneRequestPerEligible ==
    pc \in {"sample", "models", "client", "done"} =>
        requests = EligiblePaths(idx - 1)

\* A run that passed a non-eligible endpoint, called two, and met a failure.
C7_Witness ==
    /\ pc = "done"
    /\ Len(requests) = 2
    /\ Len(endpoints) = 3
    /\ \E p \in DOMAIN server : Classify(server[p]) # "success"

IsPrimitiveType(t) == t \in {tString, tBool, tInt64, tFloat64}
IsSequenceType(t) == HasPrefix(t, tSlice)
IsMappingType(t) == HasPrefix(t, tMap)
IsRecordType(t) ==
    /\ t # <<>>
    /\ t # tInterface
    /\ ~IsPrimitiveType(t)
    /\ ~IsSequenceType(t)
    /\ ~IsMappingType(t)

\* The type recorded under the endpoint's function name, <<>> if none.
RecordedType(ep) ==
    IF ep.FuncName \in DOMAIN endpointResponseType
    THEN endpointResponseType[ep.FuncName]
    ELSE <<>>

\* C8 as stated: the operation has a typed (decoded) result exactly when a type
\* is associated with the endpoint and it is a record; otherwise it returns the
\* raw payload.
C8_TypedIffRecord ==
    Written("client.go") =>
        \A k \in DOMAIN ClientOps :
            IF IsRecordType(RecordedType(endpoints[k]))
            THEN ClientOps[k].decode = "typed"
            ELSE ClientOps[k].decode = "raw"

\* C8 amended: the operation returns the raw payload exactly when no type is
\* recorded under the endpoint's function name.  With a type recorded it decodes
\* the payload into that type: behind a pointer when the type is a record or a
\* mapping with a typed element, by value when it is a primitive, a sequence,
\* the untyped type or the untyped mapping.
C8_DecodeByRecordedType ==
    Written("client.go") =>
        \A k \in DOMAIN ClientOps :
            LET t == RecordedType(endpoints[k])
                op == ClientOps[k]
            IN  /\ (op.decode = "raw") = (t = <<>>)
                /\ t = <<>> => op.retType = tRawMessage /\ ~op.pointer
                /\ t # <<>> => op.retType = t
                /\ (op.decode = "typed") =
                      (IsRecordType(t) \/ (IsMappingType(t) /\ t # tUntypedMap))
                /\ op.pointer = (op.decode = "typed")

\* A client with a raw operation, one decoding a mapping behind a pointer and
\* one decoding a primitive by value.
C8_Witness ==
    /\ pc = "done"
    /\ \E k \in DOMAIN ClientOps : ClientOps[k].decode = "raw"
    /\ \E k \in DOMAIN ClientOps :
          ClientOps[k].decode = "typed" /\ IsMappingType(ClientOps[k].retType)
    /\ \E k \in DOMAIN ClientOps :
          ClientOps[k].decode = "value" /\ IsPrimitiveType(ClientOps[k].retType)

C10_CountsBalance ==
    /\ totalGetCalls = successCalls + skippedCalls
    /\ totalGetCalls = Len(requests)
    /\ summary # <<>> => summary[1] = summary[2] + summary[3]

\* A printed summary with both inferred and skipped endpoints.
C10_Witness ==
    /\ summary # <<>>
    /\ summary[2] >= 1
    /\ summary[3] >= 2

\* C11: if the schema fetch fails (transport error or a response with a status
\* outside 200..299) or the body does not parse as a schema, the run aborts at
\* once: no endpoint is sampled and neither unit is ever written.
C11_FetchFailureAborts ==
    (/\ fetch # <<>>
     /\ (fetch.err \/ fetch.status < 200 \/ fetch.status > 299 \/ ~fetch.parsed)) =>
        /\ pc = "aborted"
        /\ requests = <<>>
        /\ files = NoFiles
        /\ prev = NoFiles

\* The key has no character other than a decimal digit.
OnlyDigits(k) == \A i \in DOMAIN k : k[i] \in {"0", "1", "2", "3", "4", "5", "6", "7", "8", "9"}

\* The type the claim expects for value v under candidate name n, for the
\* values SampleObject uses: a whole number, or an object with the one key x.
ExpectedType(n, v) == IF v.t = "num" THEN tInt64 ELSE n

\* The names the inference registered, as a set.
RegisteredNames == {output.writes[w][1] : w \in DOMAIN output.writes}

\* C12: a non-empty JSON object is inferred as a mapping of text to the type
\* inferred from the value of its first key in sorted order exactly when it has
\* more than one key and every key consists solely of decimal digits; otherwise
\* it is inferred as a record registered under the candidate name with one
\* field per key.
C12_MapIffNumericKeys ==
    (pc = "inferred" /\ input.t = "obj" /\ DOMAIN input.fields # {}) =>
        LET keys == DOMAIN input.fields
            first == CHOOSE k \in keys : \A o \in keys \ {k} : StrLess(k, o)
        IN  IF Cardinality(keys) > 1 /\ \A k \in keys : OnlyDigits(k)
            THEN /\ output.type =
                       tMap \o ExpectedType(RootName \o sItem, input.fields[first])
                 /\ RootName \notin RegisteredNames
            ELSE /\ output.type = RootName
                 /\ RootName \in RegisteredNames
                 /\ \A w \in DOMAIN output.writes :
                       output.writes[w][1] = RootName =>
                           LET fields == output.writes[w][2].fields
                           IN  /\ Len(fields) = Cardinality(keys)
                               /\ {fields[i].jsonTag : i \in DOMAIN fields} = keys

\* An object with several all-digit keys whose first value is itself an object:
\* inferred as a mapping to the record registered for that value.
C12_Witness ==
    /\ pc = "inferred"
    /\ Cardinality(DOMAIN input.fields) > 1
    /\ output.type = tMap \o RootName \o sItem
    /\ RootName \o sItem \in RegisteredNames

\* C13: a sampled number is inferred as integer exactly when it is exactly
\* representable as a 64-bit integer (it equals its own truncation to one), and
\* as floating-point otherwise.
C13_IntegerIffInt64 ==
    pc = "numbered" =>
        IF input.over = "no" /\ input.fp = 0
        THEN output.type = tInt64
        ELSE output.type = tFloat64

\* The outcomes the claim lists as failures: transport error, non-200 status,
\* empty body, body that is not JSON.
FailedSample(reply) ==
    \/ reply.err
    \/ reply.status # 200
    \/ reply.body.kind = "empty"
    \/ reply.body.kind # "json"

\* Table t gains an entry or has an entry replaced in this step.
Added(t, tNext) == \E n \in DOMAIN tNext : n \notin DOMAIN t \/ tNext[n] # t[n]

\* This step is one iteration of the sampling loop that calls the endpoint.
SampleStep ==
    /\ pc = "sample"
    /\ idx <= Len(endpoints)
    /\ requests' = Append(requests, endpoints[idx].Path)

\* C14: a sample classified as transport error, non-200 status, empty body or
\* non-JSON body leaves the record table and the response-type map unchanged and
\* the sampler goes on to the next endpoint; only a success outcome adds entries
\* to either of them.
C14_FailureLeavesTables ==
    [][/\ (SampleStep /\ FailedSample(server'[endpoints[idx].Path])) =>
              /\ inferredStructs' = inferredStructs
              /\ endpointResponseType' = endpointResponseType
              /\ pc' = "sample"
              /\ idx' = idx + 1
       /\ (\/ Added(inferredStructs, inferredStructs')
           \/ Added(endpointResponseType, endpointResponseType')) =>
              SampleStep /\ ~FailedSample(server'[endpoints[idx].Path])]_vars

\* A sample that failed after an earlier one had filled the tables, with the
\* loop gone on to a third endpoint.
C14_Witness ==
    /\ pc = "sample"
    /\ Len(requests) = 2
    /\ idx = 3
    /\ Len(endpoints) = 3
    /\ ~FailedSample(server[requests[1]])
    /\ FailedSample(server[requests[2]])
    /\ inferredStructs # NoMap
    /\ DOMAIN endpointResponseType # {}

\* (g1, p1) <= (g2, p2) in lexicographic order.
GroupPathLeq(g1, p1, g2, p2) ==
    \/ StrLess(g1, g2)
    \/ g1 = g2 /\ (p1 = p2 \/ StrLess(p1, p2))

\* The descriptors of the list that stand for schema entry op.
DescriptorsOf(op) ==
    LET method == ToUpperS(op.method)
    IN  {i \in DOMAIN endpoints :
            endpoints[i].Path = op.path /\ endpoints[i].Method = method}

\* C15: once the endpoint list is built it has exactly one descriptor per
\* declared (path, method) pair of the schema and is in non-decreasing
\* lexicographic order of (group, path), and the client unit holds exactly one
\* operation per descriptor, in that order.
C15_OneDescriptorSortedEmitted ==
    /\ pc \in {"sample", "models", "client", "done"} =>
          /\ Len(endpoints) = Cardinality(schema)
          /\ \A op \in schema : Cardinality(DescriptorsOf(op)) = 1
          /\ \A i \in DOMAIN endpoints :
                i < Len(endpoints) =>
                    GroupPathLeq(endpoints[i].Group, endpoints[i].Path,
                                 endpoints[i + 1].Group, endpoints[i + 1].Path)
    /\ Written("client.go") =>
          /\ Len(ClientOps) = Len(endpoints)
          /\ \A k \in DOMAIN ClientOps :
                /\ ClientOps[k].method = endpoints[k].Method
                /\ ClientOps[k].name \in
                      {endpoints[k].FuncName, endpoints[k].FuncName \o endpoints[k].Method}
                /\ ClientOps[k].pathBuild.kind = "literal" =>
                      ClientOps[k].pathBuild.format = endpoints[k].Path

\* A written client for three descriptors of two groups, two of them on the
\* same path.
C15_Witness ==
    /\ pc = "done"
    /\ Len(ClientOps) = 3
    /\ \E i, j \in DOMAIN endpoints : endpoints[i].Group # endpoints[j].Group
    /\ \E i, j \in DOMAIN endpoints : i # j /\ endpoints[i].Path = endpoints[j].Path

\* The number of placeholders of a path template: each "{" opens a named
\* placeholder and each "(" a pattern placeholder.
Placeholders(path) == Cardinality({i \in DOMAIN path : path[i] \in {"{", "("}})

\* The number of format verbs %v in a format text.
Verbs(format) ==
    Cardinality({i \in DOMAIN format :
                    i < Len(format) /\ format[i] = "%" /\ format[i + 1] = "v"})

\* C16: for every endpoint the emitted path expression fills the placeholders
\* of the path template with the declared path parameters positionally, in
\* declaration order: parameter i fills placeholder i, no placeholder is left
\* unfilled and no path parameter is passed without a placeholder to fill.
C16_PathParamsPositional ==
    Written("client.go") =>
        \A k \in DOMAIN ClientOps :
            LET ep == endpoints[k]
                build == ClientOps[k].pathBuild
                declared == SelectSeq(ep.Params, LAMBDA p : p.In = "path")
                filled == IF build.kind = "sprintf" THEN Verbs(build.format) ELSE 0
            IN  /\ Len(build.args) = Len(declared)
                /\ \A i \in DOMAIN declared :
                      build.args[i] = toLowerCamel(declared[i].Name)
                /\ filled = Placeholders(ep.Path)
                /\ Len(build.args) = filled

\* The positions of the query parameters in the signature of the operation
\* emitted for descriptor ep: they follow the path parameters.
QueryPositions(ep) ==
    LET nPath == Len(SelectSeq(ep.Params, LAMBDA p : p.In = "path"))
        nQuery == Len(SelectSeq(ep.Params, LAMBDA p : p.In = "query"))
    IN  (nPath + 1)..(nPath + nQuery)

RECURSIVE BaseType(_)
BaseType(t) ==
    IF HasPrefix(t, tSlice) THEN BaseType(SubSeq(t, Len(tSlice) + 1, Len(t)))
    ELSE IF HasPrefix(t, tMap) THEN BaseType(SubSeq(t, Len(tMap) + 1, Len(t)))
    ELSE t

\* Type t refers to a record by name.
NamesRecord(t) ==
    BaseType(t) \notin {<<>>, tString, tBool, tInt64, tFloat64, tInterface, tRawMessage}

\* C18: every record name that occurs in a field type of a registered record or
\* in the response type recorded for an endpoint is a key of the record table,
\* and every record name the models unit or the client unit refers to is
\* declared in the models unit.
C18_ReferencedRecordsDeclared ==
    /\ \A n \in DOMAIN inferredStructs :
          \A i \in DOMAIN inferredStructs[n].fields :
              LET t == inferredStructs[n].fields[i].fieldType
              IN  NamesRecord(t) => BaseType(t) \in DOMAIN inferredStructs
    /\ \A f \in DOMAIN endpointResponseType :
          NamesRecord(endpointResponseType[f]) =>
              BaseType(endpointResponseType[f]) \in DOMAIN inferredStructs
    /\ (Written("models.go") /\ Written("client.go")) =>
          LET models == files["models.go"]
              declared == {models[m].name : m \in DOMAIN models}
          IN  /\ \A m \in DOMAIN models : \A i \in DOMAIN models[m].fields :
                    NamesRecord(models[m].fields[i].fieldType) =>
                        BaseType(models[m].fields[i].fieldType) \in declared
              /\ \A k \in DOMAIN ClientOps :
                    NamesRecord(ClientOps[k].retType) =>
                        BaseType(ClientOps[k].retType) \in declared

\* Written units in which a record has a field of a nested record type, one
\* operation returns a record and another a mapping to a record.
C18_Witness ==
    /\ pc = "done"
    /\ \E n \in DOMAIN inferredStructs : \E i \in DOMAIN inferredStructs[n].fields :
          NamesRecord(inferredStructs[n].fields[i].fieldType)
    /\ \E k \in DOMAIN ClientOps : ClientOps[k].retType \in DOMAIN inferredStructs
    /\ \E k \in DOMAIN ClientOps :
          IsMappingType(ClientOps[k].retType) /\ NamesRecord(ClientOps[k].retType)

\* The largest element of a non-empty set of integers.
Largest(S) == CHOOSE x \in S : \A y \in S : y <= x

\* The recorded maximum of a slot, 0 while nothing is recorded for it.
Recorded(m, slot) == IF slot \in DOMAIN m THEN m[slot] ELSE 0

\* The speeds (velocity * 3.6, in tenths of km/h) a tick reports for a slot.
TickSpeeds(standings, slot) ==
    {standings[i].Velocity * 36 : i \in {j \in DOMAIN standings : standings[j].SlotID = slot}}

\* C19: across poll ticks the maximum speed recorded for each slot never
\* decreases: after a tick whose standings fetch succeeds it is the larger of
\* its previous value and that tick's velocity * 3.6 for the slot, and a tick
\* whose fetch fails renders nothing and leaves every recorded maximum as it
\* was.
C19_MaxSpeedNeverDecreases ==
    [][(pc = "poll" /\ ticks' = ticks + 1) =>
          /\ \A slot \in Slots : Recorded(maxSpeeds', slot) >= Recorded(maxSpeeds, slot)
          /\ last'.ok =>
                \A slot \in Slots :
                    Recorded(maxSpeeds', slot) =
                        Largest({Recorded(maxSpeeds, slot)}
                                    \cup TickSpeeds(last'.standings, slot))
          /\ ~last'.ok => maxSpeeds' = maxSpeeds /\ frames' = frames]_vars

\* After a failed tick and two rendered ones, the last of which reported a
\* slot slower than its recorded maximum.
C19_Witness ==
    /\ pc = "poll"
    /\ ticks = 3
    /\ frames = 2
    /\ last.ok
    /\ \E i \in DOMAIN last.standings :
          /\ last.standings[i].Velocity > 0
          /\ last.standings[i].Velocity * 36 < Recorded(maxSpeeds, last.standings[i].SlotID)

====
